---- MODULE Spec2Model ----
(***************************************************************************)
(* Model of the run-editor crate: resolution of the editor command         *)
(* (src/src/lib.rs), the shell invocation, the buffer round trip through a *)
(* temporary file and the copy-edit-persist protocol (src/src/imp.rs).     *)
(*                                                                         *)
(* Conventions                                                             *)
(*   Option<T>   a sequence of length at most one: None is <<>>, Some(x)   *)
(*               is <<x>>.                                                 *)
(*   OsString    a sequence of text chunks, so that concatenation is \o    *)
(*               and "true" differs from "true " (<<"true", " ">>).        *)
(*   Path        a sequence of components; <<"/">> is the root, <<>> the   *)
(*               empty path, <<"dst">> a bare relative file name.          *)
(*   Vec<u8>     a sequence of bytes.                                      *)
(***************************************************************************)
EXTENDS Integers, Sequences, FiniteSets, TLC

\* ------------------------------------------------------------------ bounds
\* Longest byte content of a buffer or a file that is enumerated.
MaxLen == 1

\* ----------------------------------------------------------------- options
None == <<>>
Some(x) == <<x>>
IsSome(o) == o # None
Unwrap(o) == o[1]

\* Option::or_else: keeps a Some, otherwise evaluates the alternative.
or_else(o, alt) == IF IsSome(o) THEN o ELSE alt

\* Option::unwrap_or_else.
unwrap_or_else(o, dflt) == IF IsSome(o) THEN Unwrap(o) ELSE dflt

\* ------------------------------------------------------------ input sets
Byte == {0, 1}

RECURSIVE SeqsUpTo(_, _)
SeqsUpTo(S, n) ==
    IF n = 0 THEN {<<>>}
    ELSE LET shorter == SeqsUpTo(S, n - 1)
         IN  shorter \cup {Append(s, x) : s \in {q \in shorter : Len(q) = n - 1}, x \in S}

\* Byte contents the callers and the editor produce.
Contents == SeqsUpTo(Byte, MaxLen)

\* Editor commands.  Colon and True are the two no-op commands; TrueSp is
\* "true" followed by a blank; Ed is an ordinary editor.
Colon == <<":">>
True == <<"true">>
TrueSp == <<"true", " ">>
Ed == <<"ed">>
Vi == <<"vi">>

\* Commands a caller passes to Edit::with.
ConfigCommands == {True}
\* The value each environment variable is set to when it is set; every
\* source of the command has a value of its own, as in test_get_editor.
EnvValue(var) ==
    CASE var = "VISUAL" -> Ed
      [] var = "EDITOR" -> TrueSp
      [] OTHER -> Colon

\* The variable a caller passes to with_editor_variable, and the variables
\* the resolver reads.
FooEditor == "FOO_EDITOR"
EnvVars == {FooEditor, "VISUAL", "EDITOR"}
\* The variable imp::edit_file passes the path in, and every variable of
\* the process environment the model keeps.
PathVarName == "TMP_file_path"
ProcessVars == EnvVars \cup {PathVarName}

Threads == {"t1"}

\* ------------------------------------------------------------------ paths
Root == <<"/">>
Empty == <<>>
\* std::env::current_dir() and std::env::temp_dir() of the process.
current_dir == <<"/", "w">>
temp_dir == <<"/", "tmp">>

\* Path::parent: None for the root and for the empty path, otherwise the
\* path without its last component (the empty path for a bare file name).
parent(p) ==
    IF p = Root \/ p = Empty THEN None
    ELSE Some(SubSeq(p, 1, Len(p) - 1))

\* Path::join of a directory and a file name.
join(dir, name) == dir \o <<name>>

\* The absolute path the operating system resolves a path to.
Resolve(p) == IF p # Empty /\ p[1] = "/" THEN p ELSE current_dir \o p

\* Names NamedTempFile draws from: one where a single caller is modelled,
\* two where two callers run at once.
TempNames == {".tmpA"}
ConcTempNames == {".tmpA", ".tmpB"}
Dirs == {current_dir, temp_dir}
\* Every file path the model's file system can hold an entry for.
FilePaths ==
    {join(current_dir, n) : n \in {"src", "dst"} \cup TempNames}
        \cup {join(temp_dir, n) : n \in TempNames}

\* The same with room for two temporary files in each directory.
ConcFilePaths ==
    {join(current_dir, n) : n \in {"src", "dst"} \cup ConcTempNames}
        \cup {join(temp_dir, n) : n \in ConcTempNames}

\* Paths callers pass as src, dst and as the target of Edit::file.
CopyPaths ==
    {<<(<<"src">>), (<<"dst">>)>>, <<(<<"src">>), (<<"/", "w", "dst">>)>>,
     <<(<<"dst">>), (<<"dst">>)>>, <<(<<"src">>), Root>>, <<(<<"src">>), Empty>>}
TargetPaths == {<<"dst">>}

\* ------------------------------------------------------------ file system
\* A regular file and its bytes.
File(data) == [data |-> data]
Directory == [dir |-> TRUE]

\* What a path names in file system f: None, Some(file) or Some(Directory).
Stat(f, p) ==
    IF p = Empty THEN None
    ELSE IF Resolve(p) \in DOMAIN f THEN f[Resolve(p)]
    ELSE IF Resolve(p) \in Dirs \cup {Root} THEN Some(Directory)
    ELSE None

\* unlink(2): the directory entry is gone afterwards; a missing entry is
\* not an error the caller sees.
remove_file(f, p) ==
    IF Resolve(p) \in DOMAIN f THEN [f EXCEPT ![Resolve(p)] = None] ELSE f

\* rename(2): the entry at `to` atomically becomes the file that was at
\* `from`, and `from` is gone.
rename(f, from, to) ==
    IF Resolve(from) = Resolve(to) THEN f
    ELSE [f EXCEPT ![Resolve(to)] = f[Resolve(from)], ![Resolve(from)] = None]

\* ----------------------------------------------------------------- errors
\* error::Inner
CmdError == [kind |-> "CmdError"]
EditorError(ed, st) ==
    [kind |-> "EditorError", editor |-> ed, status |-> st]
PathError(path, error) == [kind |-> "PathError", path |-> path, error |-> error]

\* WithPathContext::with_path_ctx for an io::Error.
with_path_ctx(error, path) == PathError(path, error)

Ok(v) == [ok |-> TRUE, value |-> v]
Err(e) == [ok |-> FALSE, error |-> e]
Unit == "()"

\* std::process::ExitStatus: an exit code or a terminating signal.
Exited(code) == [code |-> Some(code), signal |-> None]
Signaled(sig) == [code |-> None, signal |-> Some(sig)]
ExitStatuses == {Exited(0), Exited(1), Signaled(9)}
success(st) == st.code = Some(0)

\* Text is a sequence of words, digits, blanks and marks, so that writing
\* one piece after another is \o.
\* Path::display: the components with a separator between them.
RECURSIVE display(_)
display(p) ==
    IF Len(p) <= 1 THEN p
    ELSE display(SubSeq(p, 1, Len(p) - 1))
            \o (IF SubSeq(p, 1, Len(p) - 1) = Root THEN <<>> ELSE <<"/">>)
            \o <<p[Len(p)]>>

\* Display for a small integer: its decimal digit.
decimal(n) == <<"0", "1", "2", "3", "4", "5", "6", "7", "8", "9">>[n + 1]

\* The name the platform gives a signal.
signal_name(sig) == IF sig = 9 THEN "SIGKILL" ELSE "SIG?"

\* Display for ExitStatus.
status_display(st) ==
    IF IsSome(st.code)
    THEN <<"exit", " ", "status", ":", " ", decimal(Unwrap(st.code))>>
    ELSE <<"signal", ":", " ", decimal(Unwrap(st.signal)), " ", "(",
           signal_name(Unwrap(st.signal)), ")">>

\* Display for Error with the preposition chosen by success(), which no
\* EditorError status has.
fmt_by_success(e) ==
    CASE e.kind = "CmdError" -> <<"sh", ":", " ", "os error">>
      [] e.kind = "EditorError" ->
            LET preposition == IF success(e.status) THEN "with" ELSE "by"
            IN  e.editor \o <<":", " ", "terminated", " ", preposition, " ">>
                    \o status_display(e.status)
      [] e.kind = "PathError" -> display(e.path) \o <<":", " ", e.error>>

\* Display for Error.
fmt(e) ==
    CASE e.kind = "CmdError" -> <<"sh", ":", " ", "os error">>
      [] e.kind = "EditorError" ->
            LET preposition == IF IsSome(e.status.code) THEN "with" ELSE "by"
            IN  e.editor \o <<":", " ", "terminated", " ", preposition, " ">>
                    \o status_display(e.status)
      [] e.kind = "PathError" -> display(e.path) \o <<":", " ", e.error>>

\* ------------------------------------------------------------------ state
VARIABLES
    env,              \* process environment: variable -> Option<OsString>
    editor_variable,  \* Edit::editor_variable
    editor_command,   \* Edit::editor_command
    fs,               \* directory entries: file path -> Option<File>
    pc,               \* per thread: where the running operation stands
    op,               \* per thread: the public operation that was called
    frame,            \* per thread: arguments and locals of the operation
    child,            \* per thread: the shell process it waits for
    result,           \* per thread: what the last operation returned
    pre,              \* per thread: what the paths named when it was called
    edited,           \* per thread: what its editor did to the file
    status            \* per thread: how its shell process terminated

vars == <<env, editor_variable, editor_command, fs, pc, op, frame, child,
          result, pre, edited, status>>

NoFrame ==
    [src |-> Empty, dst |-> Empty, path |-> Empty, buf |-> <<>>,
     input |-> None, dir |-> Empty, temp |-> None, editor |-> <<>>]
NoPre == [src |-> None, dst |-> None, buf |-> <<>>, last |-> None]

Init ==
    /\ env = [v \in ProcessVars |-> None]
    /\ editor_variable = None
    /\ editor_command = None
    /\ \E s \in {c \in Contents : Len(c) = MaxLen},
          d \in {None} \cup {Some(File(c)) : c \in Contents} :
         fs = [p \in FilePaths |->
                 IF p = join(current_dir, "src") THEN Some(File(s))
                 ELSE IF p = join(current_dir, "dst") THEN d
                 ELSE None]
    /\ pc = [t \in Threads |-> "idle"]
    /\ op = [t \in Threads |-> "none"]
    /\ frame = [t \in Threads |-> NoFrame]
    /\ child = [t \in Threads |-> None]
    /\ result = [t \in Threads |-> None]
    /\ pre = [t \in Threads |-> NoPre]
    /\ edited = [t \in Threads |-> "no"]
    /\ status = [t \in Threads |-> None]

Idle(t) == pc[t] \in {"idle", "done"}

\* ------------------------------------------------------------ environment
\* A lookup that takes a variable set to the empty string for unset, as a
\* shell's ${VAR:-default} does.
var_os_nonempty(environ, var) ==
    IF environ[var] = Some(<<>>) THEN None ELSE environ[var]

\* std::env::var_os
var_os(environ, var) == environ[var]

\* std::env::set_var
set_var(var, value) ==
    /\ env' = [env EXCEPT ![var] = Some(value)]
    /\ UNCHANGED <<editor_variable, editor_command, fs, pc, op, frame, child,
                   result, pre, edited, status>>

\* std::env::remove_var
remove_var(var) ==
    /\ env' = [env EXCEPT ![var] = None]
    /\ UNCHANGED <<editor_variable, editor_command, fs, pc, op, frame, child,
                   result, pre, edited, status>>

\* ---------------------------------------------------------- configuration
\* edit(): a fresh Edit value with neither override.
edit ==
    /\ \A t \in DOMAIN pc : Idle(t)
    /\ editor_variable' = None
    /\ editor_command' = None
    /\ UNCHANGED <<env, fs, pc, op, frame, child, result, pre, edited, status>>

\* Edit::with_editor_variable; it borrows the Edit value mutably, so no
\* operation on it is in progress.
with_editor_variable(variable) ==
    /\ \A t \in DOMAIN pc : Idle(t)
    /\ editor_variable' = Some(variable)
    /\ UNCHANGED <<env, editor_command, fs, pc, op, frame, child, result, pre, edited, status>>

\* Edit::with
with(command) ==
    /\ \A t \in DOMAIN pc : Idle(t)
    /\ editor_command' = Some(command)
    /\ UNCHANGED <<env, editor_variable, fs, pc, op, frame, child, result, pre, edited, status>>

\* ------------------------------------------------------------- resolution
\* Edit::editor with EDITOR consulted before VISUAL.
editor_editor_first(self_variable, self_command, environ) ==
    unwrap_or_else(
        or_else(
            or_else(
                or_else(
                    IF IsSome(self_variable)
                    THEN var_os(environ, Unwrap(self_variable)) ELSE None,
                    self_command),
                var_os(environ, "EDITOR")),
            var_os(environ, "VISUAL")),
        Vi)

\* Edit::editor
editor(self_variable, self_command, environ) ==
    unwrap_or_else(
        or_else(
            or_else(
                or_else(
                    IF IsSome(self_variable)
                    THEN var_os(environ, Unwrap(self_variable)) ELSE None,
                    self_command),
                var_os(environ, "VISUAL")),
            var_os(environ, "EDITOR")),
        Vi)

\* Edit::editor_unless_nop that knows ":" only.
editor_unless_nop_colon(self_variable, self_command, environ) ==
    LET ed == unwrap_or_else(
                  or_else(
                      or_else(
                          or_else(
                              IF IsSome(self_variable)
                              THEN var_os(environ, Unwrap(self_variable))
                              ELSE None,
                              self_command),
                          var_os(environ, "VISUAL")),
                      var_os(environ, "EDITOR")),
                  Vi)
    IN  IF ed = Colon THEN None ELSE Some(ed)

\* Edit::editor_unless_nop
editor_unless_nop(self_variable, self_command, environ) ==
    LET ed == editor(self_variable, self_command, environ)
    IN  IF ed = Colon \/ ed = True THEN None ELSE Some(ed)

\* ------------------------------------------------------- returning, moving
\* The operation of thread t returns r, leaving the file system as f.
Return(t, r, f) ==
    /\ pc' = [pc EXCEPT ![t] = "done"]
    /\ result' = [result EXCEPT ![t] = Some(r)]
    /\ fs' = f

\* Thread t moves on to step `label` with locals fr and file system f.
Goto(t, label, fr, f) ==
    /\ pc' = [pc EXCEPT ![t] = label]
    /\ frame' = [frame EXCEPT ![t] = fr]
    /\ fs' = f
    /\ UNCHANGED result

\* Drop of a NamedTempFile or TempPath: the file at the path is removed.
drop_temp(f, temp) == IF IsSome(temp) THEN remove_file(f, Unwrap(temp)) ELSE f

\* A caller starts an operation: the arguments are recorded together with
\* what src and dst name at that moment.
Call(t, name, label, fr) ==
    /\ Idle(t)
    /\ pc' = [pc EXCEPT ![t] = label]
    /\ op' = [op EXCEPT ![t] = name]
    /\ frame' = [frame EXCEPT ![t] = fr]
    /\ result' = [result EXCEPT ![t] = None]
    /\ pre' = [pre EXCEPT ![t] =
                 [src |-> Stat(fs, fr.src), dst |-> Stat(fs, fr.dst),
                  buf |-> fr.buf, last |-> None]]
    /\ edited' = [edited EXCEPT ![t] = "no"]
    /\ status' = [status EXCEPT ![t] = None]
    /\ UNCHANGED <<env, editor_variable, editor_command, fs, child>>

\* Edit::editor that keeps the command it resolved first.
CallEditor_cached(t) ==
    /\ Idle(t)
    /\ op' = [op EXCEPT ![t] = "editor"]
    /\ frame' = [frame EXCEPT ![t] = NoFrame]
    /\ pre' = [pre EXCEPT ![t] =
                 [NoPre EXCEPT !.last =
                    IF op[t] = "editor" THEN result[t] ELSE None]]
    /\ Return(t,
              IF op[t] = "editor" /\ IsSome(result[t])
              THEN Unwrap(result[t])
              ELSE Ok(editor(editor_variable, editor_command, env)),
              fs)
    /\ edited' = [edited EXCEPT ![t] = "no"]
    /\ status' = [status EXCEPT ![t] = None]
    /\ UNCHANGED <<env, editor_variable, editor_command, child>>

\* ------------------------------------------------------------ Edit::editor
CallEditor(t) ==
    /\ Idle(t)
    /\ op' = [op EXCEPT ![t] = "editor"]
    /\ frame' = [frame EXCEPT ![t] = NoFrame]
    /\ pre' = [pre EXCEPT ![t] =
                 [NoPre EXCEPT !.last =
                    IF op[t] = "editor" THEN result[t] ELSE None]]
    /\ Return(t, Ok(editor(editor_variable, editor_command, env)), fs)
    /\ edited' = [edited EXCEPT ![t] = "no"]
    /\ status' = [status EXCEPT ![t] = None]
    /\ UNCHANGED <<env, editor_variable, editor_command, child>>

\* -------------------------------------------------------------- Edit::file
\* The same with file_copy dropping the result of Edit::file and going on
\* to persist.
AfterFile_ignore_error(t, r, fr0, f) ==
    LET fr == [fr0 EXCEPT !.editor = <<>>]
    IN
    IF op[t] = "file" THEN
        /\ Return(t, r, f)
        /\ frame' = [frame EXCEPT ![t] = fr]
    ELSE IF r.ok \/ op[t] = "file_copy" THEN
        Goto(t, IF op[t] = "buffer" THEN "read" ELSE "persist", fr, f)
    ELSE
        /\ Return(t, r, drop_temp(f, fr.temp))
        /\ frame' = [frame EXCEPT ![t] = fr]

\* What happens once Edit::file (or imp::edit_file) has returned r to the
\* operation of thread t, the file system being f.
AfterFile(t, r, fr0, f) ==
    LET fr == [fr0 EXCEPT !.editor = <<>>]  \* edit_file consumed `editor`
    IN
    IF op[t] = "file" THEN
        \* Edit::file was the operation: its result is the result
        /\ Return(t, r, f)
        /\ frame' = [frame EXCEPT ![t] = fr]
    ELSE IF r.ok THEN
        \* edit_buffer goes on to read the file back, file_copy to persist
        Goto(t, IF op[t] = "buffer" THEN "read" ELSE "persist", fr, f)
    ELSE
        \* `?`: the error is returned and the temporary file is dropped
        /\ Return(t, r, drop_temp(f, fr.temp))
        /\ frame' = [frame EXCEPT ![t] = fr]

\* A caller calls Edit::file(path).
CallFile(t, path) ==
    Call(t, "file", "file", [NoFrame EXCEPT !.path = path, !.dst = path])

\* Edit::file whose no-op arm returns from the whole operation, as if
\* file_copy ended with it.
file_nop_returns(t) ==
    /\ pc[t] = "file"
    /\ LET ed == editor_unless_nop(editor_variable, editor_command, env)
       IN  IF IsSome(ed)
           THEN Goto(t, "spawn", [frame[t] EXCEPT !.editor = Unwrap(ed)], fs)
           ELSE /\ Return(t, Ok(Unit), drop_temp(fs, frame[t].temp))
                /\ UNCHANGED frame
    /\ UNCHANGED <<env, editor_variable, editor_command, op, child, pre, edited, status>>

\* Edit::file: resolve the command, return Ok(()) for a no-op, otherwise
\* hand over to imp::edit_file.
file(t) ==
    /\ pc[t] = "file"
    /\ LET ed == editor_unless_nop(editor_variable, editor_command, env)
       IN  IF IsSome(ed)
           THEN Goto(t, "spawn", [frame[t] EXCEPT !.editor = Unwrap(ed)], fs)
           ELSE AfterFile(t, Ok(Unit), frame[t], fs)
    /\ UNCHANGED <<env, editor_variable, editor_command, op, child, pre, edited, status>>

\* --------------------------------------------------------- imp::edit_file
PathVariable == <<" \"$TMP_file_path\"">>

\* imp::concat_os_str
concat_os_str(x, y) == x \o y

\* The shell process imp::edit_file starts.
ShellProcess(ed, path) ==
    [program |-> "/bin/sh",
     args |-> <<"-c", concat_os_str(ed, PathVariable)>>,
     TMP_file_path |-> path]

\* imp::edit_file that hands the path over with std::env::set_var, in the
\* caller's own environment, for the shell to inherit.
edit_file_spawn_set_var(t) ==
    /\ pc[t] = "spawn"
    /\ env' = [env EXCEPT ![PathVarName] = Some(frame[t].path)]
    /\ \/ /\ child' = [child EXCEPT ![t] =
                         Some(ShellProcess(frame[t].editor, frame[t].path))]
          /\ Goto(t, "wait", frame[t], fs)
       \/ /\ AfterFile(t, Err(CmdError), frame[t], fs)
          /\ UNCHANGED child
    /\ UNCHANGED <<editor_variable, editor_command, op, pre, edited, status>>

\* imp::edit_file, first half: Command::status starts /bin/sh, or fails to.
edit_file_spawn(t) ==
    /\ pc[t] = "spawn"
    /\ \/ /\ child' = [child EXCEPT ![t] =
                         Some(ShellProcess(frame[t].editor, frame[t].path))]
          /\ Goto(t, "wait", frame[t], fs)
       \/ /\ AfterFile(t, Err(CmdError), frame[t], fs)
          /\ UNCHANGED child
    /\ UNCHANGED <<env, editor_variable, editor_command, op, pre, edited, status>>

\* What the editor run by the shell may do to the file it was pointed at,
\* as pairs of the kind of change and the resulting file system: nothing
\* ("kept"), new bytes written into the same inode ("written"), the
\* directory entry replaced by a new inode, as an atomic save or a delete
\* and recreate does ("replaced"), or the entry removed ("removed").
EditorEffects(f, p) ==
    IF Resolve(p) \notin DOMAIN f THEN {<<"kept", f>>}
    ELSE {<<"kept", f>>, <<"removed", remove_file(f, p)>>}
         \cup {<<"replaced", [f EXCEPT ![Resolve(p)] = Some(File(data))]>> :
                 data \in Contents}
         \cup (IF IsSome(Stat(f, p))
               THEN {<<"written", [f EXCEPT ![Resolve(p)] = Some(File(data))]>> :
                       data \in Contents}
               ELSE {})

\* The mapping of edit_file that fails for an exit code other than 0 only,
\* so that termination by a signal passes for success.
edit_file_result_code(ed, st) ==
    IF IsSome(st.code) /\ Unwrap(st.code) # 0
    THEN Err(EditorError(ed, st)) ELSE Ok(Unit)

\* The mapping from the termination status to the result of edit_file.
edit_file_result(ed, st) ==
    IF success(st) THEN Ok(Unit) ELSE Err(EditorError(ed, st))

\* imp::edit_file, second half: the shell process terminates.
edit_file_wait(t) ==
    /\ pc[t] = "wait"
    /\ IsSome(child[t])
    /\ \E st \in ExitStatuses :
       \E e \in EditorEffects(fs, Unwrap(child[t]).TMP_file_path) :
          /\ AfterFile(t, edit_file_result(frame[t].editor, st), frame[t],
                       e[2])
          /\ edited' = [edited EXCEPT ![t] = e[1]]
          /\ status' = [status EXCEPT ![t] = Some(st)]
    /\ child' = [child EXCEPT ![t] = None]
    /\ UNCHANGED <<env, editor_variable, editor_command, op, pre>>

\* --------------------------------------------------- imp::new_temp_file
\* A temporary file created under a fixed name, whatever is there.
new_temp_file_fixed(t) ==
    /\ pc[t] = "new_temp"
    /\ \/ LET path == join(frame[t].dir, ".tmpA")
          IN  /\ path \in DOMAIN fs
              /\ Goto(t, IF op[t] = "buffer" THEN "write" ELSE "copy",
                      [frame[t] EXCEPT !.temp = Some(path)],
                      [fs EXCEPT ![path] = Some(File(<<>>))])
       \/ /\ Return(t, Err(with_path_ctx("io", frame[t].dir)), fs)
          /\ UNCHANGED frame
    /\ UNCHANGED <<env, editor_variable, editor_command, op, child, pre, edited, status>>

\* The temporary paths operations other than t's hold at the moment.
HeldTemps(t) ==
    {frame[u].temp : u \in {v \in DOMAIN pc \ {t} : ~Idle(v)}}

\* NamedTempFile::new_in(dir): an empty file under a name no entry of the
\* directory has, or an error carrying the directory.  The name is drawn
\* at random from so many that it is taken never to be one that another
\* operation in progress holds (whose file its editor may have removed).
new_temp_file(t) ==
    /\ pc[t] = "new_temp"
    /\ \/ \E n \in TempNames \cup ConcTempNames :
            LET path == join(frame[t].dir, n)
            IN  /\ path \in DOMAIN fs
                /\ fs[path] = None
                /\ Some(path) \notin HeldTemps(t)
                /\ Goto(t, IF op[t] = "buffer" THEN "write" ELSE "copy",
                        [frame[t] EXCEPT !.temp = Some(path)],
                        [fs EXCEPT ![path] = Some(File(<<>>))])
       \/ /\ Return(t, Err(with_path_ctx("io", frame[t].dir)), fs)
          /\ UNCHANGED frame
    /\ UNCHANGED <<env, editor_variable, editor_command, op, child, pre, edited, status>>

\* ------------------------------------------------------------ Edit::buffer
\* A call of Edit::buffer that creates the temporary file before it looks
\* for the command.
CallBuffer_temp_first(t, buf) ==
    Call(t, "buffer", "new_temp", [NoFrame EXCEPT !.buf = buf, !.dir = temp_dir])

\* A caller calls Edit::buffer(buf).
CallBuffer(t, buf) ==
    Call(t, "buffer", "buffer", [NoFrame EXCEPT !.buf = buf])

\* Edit::buffer whose no-op arm returns a new, empty vector.
buffer_nop_empty(t) ==
    /\ pc[t] = "buffer"
    /\ LET ed == editor_unless_nop(editor_variable, editor_command, env)
       IN  IF IsSome(ed)
           THEN Goto(t, "new_temp",
                     [frame[t] EXCEPT !.editor = Unwrap(ed), !.dir = temp_dir],
                     fs)
           ELSE /\ Return(t, Ok(<<>>), fs)
                /\ UNCHANGED frame
    /\ UNCHANGED <<env, editor_variable, editor_command, op, child, pre, edited, status>>

\* Edit::buffer: resolve the command, return the buffer itself for a
\* no-op, otherwise hand over to imp::edit_buffer.
buffer(t) ==
    /\ pc[t] = "buffer"
    /\ LET ed == editor_unless_nop(editor_variable, editor_command, env)
       IN  IF IsSome(ed)
           THEN Goto(t, "new_temp",
                     [frame[t] EXCEPT !.editor = Unwrap(ed), !.dir = temp_dir],
                     fs)
           ELSE /\ Return(t, Ok(frame[t].buf), fs)
                /\ UNCHANGED frame
    /\ UNCHANGED <<env, editor_variable, editor_command, op, child, pre, edited, status>>

\* A single Write::write that stops one byte short of the buffer's end.
write_all_short(data, buf) ==
    data \o SubSeq(buf, 1, IF Len(buf) = 0 THEN 0 ELSE Len(buf) - 1)

\* Write::write_all on a file positioned at `data`'s end.
write_all(data, buf) == data \o buf

\* The buffer left as it is before the read.
clear_kept(buf) == buf

\* Vec::clear
clear(buf) == <<>>

\* Read::read_to_end appends the file's bytes to the vector.
read_to_end(buf, data) == buf \o data

\* File system f after the open temporary file has come to hold `data`.
WriteTemp(f, temp, data) ==
    [f EXCEPT ![Resolve(temp)] = Some(File(data))]

\* imp::edit_buffer: write the buffer to the temporary file and turn the
\* file into a TempPath.
edit_buffer_write(t) ==
    /\ pc[t] = "write"
    /\ LET temp == Unwrap(frame[t].temp)
           out == Unwrap(Stat(fs, temp))
       IN  \/ Goto(t, "spawn", [frame[t] EXCEPT !.path = temp],
                   WriteTemp(fs, temp, write_all(out.data, frame[t].buf)))
           \/ /\ Return(t, Err(with_path_ctx("io", temp)),
                        drop_temp(fs, frame[t].temp))
              /\ UNCHANGED frame
    /\ UNCHANGED <<env, editor_variable, editor_command, op, child, pre, edited, status>>

\* imp::edit_buffer whose read-back keeps the temporary file on success.
edit_buffer_read_keep(t) ==
    /\ pc[t] = "read"
    /\ LET path == frame[t].path
           reopened == Stat(fs, path)
           buf == read_to_end(clear(frame[t].buf), Unwrap(reopened).data)
       IN  \/ /\ IsSome(reopened)
              /\ Return(t, Ok(buf), fs)
              /\ frame' = [frame EXCEPT ![t].buf = buf]
           \/ /\ Return(t, Err(with_path_ctx("io", path)),
                        drop_temp(fs, frame[t].temp))
              /\ UNCHANGED frame
    /\ UNCHANGED <<env, editor_variable, editor_command, op, child, pre, edited, status>>

\* imp::edit_buffer: open the path again, read the file into the cleared
\* buffer and return it; the TempPath is dropped on the way out.
edit_buffer_read(t) ==
    /\ pc[t] = "read"
    /\ LET path == frame[t].path
           reopened == Stat(fs, path)
           buf == read_to_end(clear(frame[t].buf), Unwrap(reopened).data)
       IN  \/ /\ IsSome(reopened)
              /\ Return(t, Ok(buf), drop_temp(fs, frame[t].temp))
              /\ frame' = [frame EXCEPT ![t].buf = buf]
           \/ /\ Return(t, Err(with_path_ctx("io", path)),
                        drop_temp(fs, frame[t].temp))
              /\ UNCHANGED frame
    /\ UNCHANGED <<env, editor_variable, editor_command, op, child, pre, edited, status>>

\* --------------------------------------------------------- Edit::file_copy
\* A caller calls Edit::file_copy(src, dst).
CallFileCopy(t, src, dst) ==
    Call(t, "file_copy", "open", [NoFrame EXCEPT !.src = src, !.dst = dst])

\* imp::copy_temp that opens src with File::create, which truncates it.
copy_temp_open_create(t) ==
    /\ pc[t] = "open"
    /\ LET src == frame[t].src
           input == Some(File(<<>>))
       IN  \/ /\ Resolve(src) \in FilePaths
              /\ Goto(t, "parent", [frame[t] EXCEPT !.input = input],
                      [fs EXCEPT ![Resolve(src)] = input])
           \/ /\ Return(t, Err(with_path_ctx("io", src)), fs)
              /\ UNCHANGED frame
    /\ UNCHANGED <<env, editor_variable, editor_command, op, child, pre, edited, status>>

\* imp::copy_temp: open src for reading.
copy_temp_open(t) ==
    /\ pc[t] = "open"
    /\ LET input == Stat(fs, frame[t].src)
       IN  \/ /\ IsSome(input)
              /\ Goto(t, "parent", [frame[t] EXCEPT !.input = input], fs)
           \/ /\ Return(t, Err(with_path_ctx("io", frame[t].src)), fs)
              /\ UNCHANGED frame
    /\ UNCHANGED <<env, editor_variable, editor_command, op, child, pre, edited, status>>

\* imp::copy_temp that falls back to the current directory when dst has no
\* parent.
copy_temp_parent_cwd(t) ==
    /\ pc[t] = "parent"
    /\ LET dst == frame[t].dst
           par == parent(dst)
       IN  IF par = None \/ Unwrap(par) = Empty THEN
               \/ Goto(t, "new_temp", [frame[t] EXCEPT !.dir = current_dir], fs)
               \/ /\ Return(t, Err(with_path_ctx("io", Empty)), fs)
                  /\ UNCHANGED frame
           ELSE
               Goto(t, "new_temp", [frame[t] EXCEPT !.dir = Unwrap(par)], fs)
    /\ UNCHANGED <<env, editor_variable, editor_command, op, child, pre, edited, status>>

\* imp::copy_temp that puts the temporary file into the temporary
\* directory, as edit_buffer does.
copy_temp_parent_temp_dir(t) ==
    /\ pc[t] = "parent"
    /\ LET dst == frame[t].dst
           par == parent(dst)
       IN  IF par = None THEN
               /\ Return(t, Err(with_path_ctx("EISDIR", dst)), fs)
               /\ UNCHANGED frame
           ELSE
               Goto(t, "new_temp", [frame[t] EXCEPT !.dir = temp_dir], fs)
    /\ UNCHANGED <<env, editor_variable, editor_command, op, child, pre, edited, status>>

\* imp::copy_temp: the directory of the temporary file is dst's parent.
copy_temp_parent(t) ==
    /\ pc[t] = "parent"
    /\ LET dst == frame[t].dst
           par == parent(dst)
       IN  IF par = None THEN
               /\ Return(t, Err(with_path_ctx("EISDIR", dst)), fs)
               /\ UNCHANGED frame
           ELSE IF Unwrap(par) = Empty THEN
               \/ Goto(t, "new_temp", [frame[t] EXCEPT !.dir = current_dir], fs)
               \/ /\ Return(t, Err(with_path_ctx("io", Unwrap(par))), fs)
                  /\ UNCHANGED frame
           ELSE
               Goto(t, "new_temp", [frame[t] EXCEPT !.dir = Unwrap(par)], fs)
    /\ UNCHANGED <<env, editor_variable, editor_command, op, child, pre, edited, status>>

\* A single read and write in place of std::io::copy: the last byte of
\* the input is not copied.
io_copy_short(input, output) ==
    output \o SubSeq(input, 1, IF Len(input) = 0 THEN 0 ELSE Len(input) - 1)

\* std::io::copy: every byte of the input is appended to the output.
io_copy(input, output) == output \o input

\* imp::copy_temp that gives src as the context of a failed copy.
copy_temp_copy_src_ctx(t) ==
    /\ pc[t] = "copy"
    /\ LET temp == Unwrap(frame[t].temp)
           out == Unwrap(Stat(fs, temp))
           input == Unwrap(frame[t].input)
       IN  \/ Goto(t, "file", [frame[t] EXCEPT !.path = temp, !.input = None],
                   WriteTemp(fs, temp, io_copy(input.data, out.data)))
           \/ /\ Return(t, Err(with_path_ctx("io", frame[t].src)),
                        drop_temp(fs, frame[t].temp))
              /\ UNCHANGED frame
    /\ UNCHANGED <<env, editor_variable, editor_command, op, child, pre, edited, status>>

\* imp::copy_temp: copy src into the temporary file and turn the file into
\* a TempPath, which Edit::file_copy hands to Edit::file.
copy_temp_copy(t) ==
    /\ pc[t] = "copy"
    /\ LET temp == Unwrap(frame[t].temp)
           out == Unwrap(Stat(fs, temp))
           input == Unwrap(frame[t].input)
       IN  \/ Goto(t, "file", [frame[t] EXCEPT !.path = temp, !.input = None],
                   WriteTemp(fs, temp, io_copy(input.data, out.data)))
           \/ /\ Return(t, Err(with_path_ctx("io", temp)),
                        drop_temp(fs, frame[t].temp))
              /\ UNCHANGED frame
    /\ UNCHANGED <<env, editor_variable, editor_command, op, child, pre, edited, status>>

\* imp::persist that removes dst before it renames the temporary file.
persist_unlink_first(t) ==
    /\ pc[t] = "persist"
    /\ LET temp == Unwrap(frame[t].temp)
           cleared == remove_file(fs, frame[t].dst)
       IN  \/ /\ IsSome(Stat(fs, temp))
              /\ Return(t, Ok(Unit), rename(cleared, temp, frame[t].dst))
           \/ Return(t, Err(PathError(temp, "io")),
                     drop_temp(cleared, frame[t].temp))
    /\ UNCHANGED <<env, editor_variable, editor_command, op, frame, child, pre, edited, status>>

\* imp::persist that copies the temporary file over dst: dst is truncated
\* first, and a copy that fails leaves it so.
persist_by_copy(t) ==
    /\ pc[t] = "persist"
    /\ LET temp == Unwrap(frame[t].temp)
           truncated == [fs EXCEPT ![Resolve(frame[t].dst)] = Some(File(<<>>))]
       IN  \/ /\ IsSome(Stat(fs, temp))
              /\ Return(t, Ok(Unit), rename(fs, temp, frame[t].dst))
           \/ Return(t, Err(PathError(temp, "io")),
                     drop_temp(truncated, frame[t].temp))
    /\ UNCHANGED <<env, editor_variable, editor_command, op, frame, child, pre, edited, status>>

\* imp::persist: TempPath::persist renames the temporary file to dst; when
\* the rename fails the error gives the TempPath back and it is dropped.
persist(t) ==
    /\ pc[t] = "persist"
    /\ LET temp == Unwrap(frame[t].temp)
       IN  \/ /\ IsSome(Stat(fs, temp))
              /\ Return(t, Ok(Unit), rename(fs, temp, frame[t].dst))
           \/ Return(t, Err(PathError(temp, "io")), drop_temp(fs, frame[t].temp))
    /\ UNCHANGED <<env, editor_variable, editor_command, op, frame, child, pre, edited, status>>

\* ---------------------------------------------------------- specification
Step(t) ==
    \/ CallEditor(t)
    \/ \E path \in TargetPaths : CallFile(t, path)
    \/ \E buf \in Contents : CallBuffer(t, buf)
    \/ \E a \in CopyPaths : CallFileCopy(t, a[1], a[2])
    \/ file(t)
    \/ edit_file_spawn(t)
    \/ edit_file_wait(t)
    \/ buffer(t)
    \/ new_temp_file(t)
    \/ edit_buffer_write(t)
    \/ edit_buffer_read(t)
    \/ copy_temp_open(t)
    \/ copy_temp_parent(t)
    \/ copy_temp_copy(t)
    \/ persist(t)

Next ==
    \/ \E t \in Threads : Step(t)
    \/ \E var \in EnvVars : set_var(var, EnvValue(var))
    \/ \E var \in EnvVars : remove_var(var)
    \/ edit
    \/ with_editor_variable(FooEditor)
    \/ \E command \in ConfigCommands : with(command)

Spec == Init /\ [][Next]_vars

\* ------------------------------------------- two callers at the same time
\* Two threads share one Edit value, the environment and the file system;
\* nothing is configured and no variable is set, so every operation runs
\* "vi".  Each thread calls buffer and file_copy; both file_copy from the
\* same src to the same dst.
ConcThreads == {"t1", "t2"}
ConcBuffers == {<<0>>}
ConcCopyPaths == {<<(<<"src">>), (<<"dst">>)>>}

ConcInit ==
    /\ env = [v \in ProcessVars |-> None]
    /\ editor_variable = None
    /\ editor_command = None
    /\ \E d \in {None, Some(File(<<0>>))} :
         fs = [p \in ConcFilePaths |->
                 IF p = join(current_dir, "src") THEN Some(File(<<1>>))
                 ELSE IF p = join(current_dir, "dst") THEN d
                 ELSE None]
    /\ pc = [t \in ConcThreads |-> "idle"]
    /\ op = [t \in ConcThreads |-> "none"]
    /\ frame = [t \in ConcThreads |-> NoFrame]
    /\ child = [t \in ConcThreads |-> None]
    /\ result = [t \in ConcThreads |-> None]
    /\ pre = [t \in ConcThreads |-> NoPre]
    /\ edited = [t \in ConcThreads |-> "no"]
    /\ status = [t \in ConcThreads |-> None]

ConcStep(t) ==
    \/ \E buf \in ConcBuffers : CallBuffer(t, buf)
    \/ \E a \in ConcCopyPaths : CallFileCopy(t, a[1], a[2])
    \/ file(t)
    \/ edit_file_spawn(t)
    \/ edit_file_wait(t)
    \/ buffer(t)
    \/ new_temp_file(t)
    \/ edit_buffer_write(t)
    \/ edit_buffer_read(t)
    \/ copy_temp_open(t)
    \/ copy_temp_parent(t)
    \/ copy_temp_copy(t)
    \/ persist(t)

ConcNext == \E t \in ConcThreads : ConcStep(t)

ConcSpec == ConcInit /\ [][ConcNext]_vars

\* ------------------------------------------- the demonstration tool
\* examples/edit.rs.  A command-line argument is an OsString; the frame of
\* main is kept beside the frame of the operation it calls.
EditFile(path) == [kind |-> "EditFile", path |-> path]
EditMessage(msg) == [kind |-> "EditMessage", msg |-> msg]
Copy(src, dst) == [kind |-> "Copy", src |-> src, dst |-> dst]
Opts(action, variable, ed) ==
    [action |-> action, variable |-> variable, editor |-> ed]

\* The message of --echo: the remaining arguments with a blank between
\* them.
RECURSIVE echo_message(_, _, _)
echo_message(message, first, args) ==
    IF args = <<>> THEN message
    ELSE echo_message(
             (IF first THEN message ELSE message \o <<" ">>) \o Head(args),
             FALSE, Tail(args))

\* parse_args after its loop has left the options: `arg` is the first
\* argument that is not an option, args are those after it.
parse_action(arg, args, variable, ed) ==
    IF arg = <<"--help">> \/ arg = <<"-h">> THEN Err(Unit)
    ELSE IF arg = <<"--file">> THEN
        IF Len(args) # 1 THEN Err(Unit)
        ELSE Ok(Opts(EditFile(args[1]), variable, ed))
    ELSE IF arg = <<"--echo">> THEN
        Ok(Opts(EditMessage(echo_message(<<>>, TRUE, args)), variable, ed))
    ELSE IF arg = <<"--copy">> THEN
        IF Len(args) # 2 THEN Err(Unit)
        ELSE Ok(Opts(Copy(args[1], args[2]), variable, ed))
    ELSE IF args = <<>> THEN Ok(Opts(EditFile(arg), variable, ed))
    ELSE Err(Unit)

\* The loop of parse_args with the options seen so far.
RECURSIVE parse_options(_, _, _)
parse_options(args, variable, ed) ==
    IF args = <<>> THEN Err(Unit)
    ELSE LET arg == Head(args)
             rest == Tail(args)
         IN  IF arg = <<"--var">> THEN
                 IF rest = <<>> THEN Err(Unit)
                 ELSE parse_options(Tail(rest), Some(Head(rest)), ed)
             ELSE IF arg = <<"--editor">> THEN
                 IF rest = <<>> THEN Err(Unit)
                 ELSE parse_options(Tail(rest), variable, Some(Head(rest)))
             ELSE parse_action(arg, rest, variable, ed)

\* parse_args
parse_args(args) == parse_options(args, None, None)

\* PathBuf::from: the components the separators of the string set apart.
PathBuf_from(os) ==
    LET names == SelectSeq(os, LAMBDA c : c # "/")
    IN  IF os # <<>> /\ os[1] = "/" THEN Root \o names ELSE names

\* OsStringExt::into_vec: the bytes of the string, one for each of its
\* characters (bytes are numbered as Byte numbers them, the blank is 2).
into_vec(os) ==
    [i \in 1..Len(os) |->
        CASE os[i] = "0" -> 0 [] os[i] = "1" -> 1 [] OTHER -> 2]

\* The name of the environment variable an OsString spells.
var_name(os) == os[1]

\* The Edit value main builds: edit() with the options applied to it.
MainEdit(opts) ==
    [editor_variable |->
        IF IsSome(opts.variable) THEN Some(var_name(Unwrap(opts.variable)))
        ELSE None,
     editor_command |-> opts.editor]

\* ExitCode::SUCCESS, ExitCode::FAILURE and the code after usage().
ExitSuccess == 0
ExitFailure == 1
ExitUsage == 2

\* Command lines the tool is started with, without the program's name:
\* options, then an action.
CliOptions ==
    {<<>>, <<(<<"--var">>), (<<FooEditor>>)>>, <<(<<"--editor">>), True>>,
     <<(<<"--var">>), (<<FooEditor>>), (<<"--editor">>), True>>,
     <<(<<"--editor">>), True, (<<"--var">>), (<<FooEditor>>)>>}
CliActions ==
    {<<(<<"--file">>), (<<"dst">>)>>, <<(<<"dst">>)>>,
     <<(<<"--echo">>), (<<"0">>)>>, <<(<<"--echo">>), (<<"0">>), (<<"1">>)>>,
     <<(<<"--copy">>), (<<"src">>), (<<"/", "w", "/", "dst">>)>>,
     <<(<<"--copy">>), (<<"src">>)>>, <<(<<"--help">>)>>,
     <<(<<"dst">>), (<<"src">>)>>, <<>>}
CommandLines == {o \o a : o \in CliOptions, a \in CliActions}

MainFrame(args) ==
    [at |-> "parse_args", args |-> args, opts |-> None,
     edit |-> [editor_variable |-> None, editor_command |-> None],
     stdout |-> None, exit |-> None]

\* The tool is started: the environment is the user's, the file system
\* has src and dst.
CliInit ==
    /\ \E set \in SUBSET EnvVars :
         env = [v \in ProcessVars |->
                  IF v \in set THEN Some(EnvValue(v)) ELSE None]
    /\ editor_variable = None
    /\ editor_command = None
    /\ fs = [p \in FilePaths |->
               IF p = join(current_dir, "src") THEN Some(File(<<1>>))
               ELSE IF p = join(current_dir, "dst") THEN Some(File(<<0>>))
               ELSE None]
    /\ pc = [t \in Threads |-> "idle"]
    /\ op = [t \in Threads |-> "none"]
    /\ \E line \in CommandLines :
         frame = [t \in Threads \cup {"main"} |->
                    IF t = "main" THEN MainFrame(<<(<<"edit">>)>> \o line)
                    ELSE NoFrame]
    /\ child = [t \in Threads |-> None]
    /\ result = [t \in Threads |-> None]
    /\ pre = [t \in Threads |-> NoPre]
    /\ edited = [t \in Threads |-> "no"]
    /\ status = [t \in Threads |-> None]

\* main: take the program's name off the arguments and parse the rest; a
\* command line that does not parse ends the tool after usage().
main_parse_args ==
    /\ frame["main"].at = "parse_args"
    /\ LET parsed == parse_args(Tail(frame["main"].args))
       IN  frame' = [frame EXCEPT !["main"] =
                IF parsed.ok
                THEN [@ EXCEPT !.opts = Some(parsed.value), !.at = "get_editor"]
                ELSE [@ EXCEPT !.exit = Some(ExitUsage), !.at = "exit"]]
    /\ UNCHANGED <<env, editor_variable, editor_command, fs, pc, op, child,
                   result, pre, edited, status>>

\* main, "Get the editor": edit() and the two options applied to it.
main_get_editor ==
    /\ frame["main"].at = "get_editor"
    /\ frame' = [frame EXCEPT !["main"] =
            [@ EXCEPT !.edit = MainEdit(Unwrap(frame["main"].opts)),
                      !.at = "action"]]
    /\ UNCHANGED <<env, editor_variable, editor_command, fs, pc, op, child,
                   result, pre, edited, status>>

\* main, "Execute action": the Edit value the arm of the match calls its
\* operation on is main's `edit` for EditFile, and a new edit() for
\* EditMessage and for Copy.
main_action ==
    /\ frame["main"].at = "action"
    /\ LET action == Unwrap(frame["main"].opts).action
           self == IF action.kind = "EditFile" THEN frame["main"].edit
                   ELSE [editor_variable |-> None, editor_command |-> None]
       IN  /\ editor_variable' = self.editor_variable
           /\ editor_command' = self.editor_command
    /\ frame' = [frame EXCEPT !["main"].at = "call"]
    /\ UNCHANGED <<env, fs, pc, op, child, result, pre, edited, status>>

\* main, the call in the arm of the match.
main_call(t) ==
    /\ frame["main"].at = "call"
    /\ pc[t] = "idle"
    /\ LET action == Unwrap(frame["main"].opts).action
       IN  CASE action.kind = "EditFile" ->
                    CallFile(t, PathBuf_from(action.path))
             [] action.kind = "EditMessage" ->
                    CallBuffer(t, into_vec(action.msg))
             [] action.kind = "Copy" ->
                    CallFileCopy(t, PathBuf_from(action.src),
                                 PathBuf_from(action.dst))

\* main, "Display result": the message of --echo goes to the standard
\* output, and the exit code tells success from failure.
main_result(t) ==
    /\ frame["main"].at = "call"
    /\ pc[t] = "done"
    /\ LET r == Unwrap(result[t])
       IN  frame' = [frame EXCEPT !["main"] =
                [@ EXCEPT !.at = "exit",
                          !.stdout = IF r.ok /\ op[t] = "buffer"
                                     THEN Some(r.value) ELSE None,
                          !.exit = Some(IF r.ok THEN ExitSuccess
                                        ELSE ExitFailure)]]
    /\ UNCHANGED <<env, editor_variable, editor_command, fs, pc, op, child,
                   result, pre, edited, status>>

CliStep(t) ==
    \/ main_call(t)
    \/ main_result(t)
    \/ file(t)
    \/ edit_file_spawn(t)
    \/ edit_file_wait(t)
    \/ buffer(t)
    \/ new_temp_file(t)
    \/ edit_buffer_write(t)
    \/ edit_buffer_read(t)
    \/ copy_temp_open(t)
    \/ copy_temp_parent(t)
    \/ copy_temp_copy(t)
    \/ persist(t)

CliNext ==
    \/ main_parse_args
    \/ main_get_editor
    \/ main_action
    \/ \E t \in Threads : CliStep(t)

CliSpec == CliInit /\ [][CliNext]_vars

\* ------------------------------------------ variables set to nothing
\* The caller's environment may hold a variable whose value is the empty
\* string (FOO_EDITOR= in a shell).  An Edit value is configured, variables
\* are set to their value or to the empty string and removed, and editor,
\* file and buffer are called.
EmptyCommand == <<>>

EmptyVarInit ==
    /\ env = [v \in ProcessVars |-> None]
    /\ editor_variable = None
    /\ editor_command = None
    /\ fs = [p \in FilePaths |->
               IF p = join(current_dir, "dst") THEN Some(File(<<0>>)) ELSE None]
    /\ pc = [t \in Threads |-> "idle"]
    /\ op = [t \in Threads |-> "none"]
    /\ frame = [t \in Threads |-> NoFrame]
    /\ child = [t \in Threads |-> None]
    /\ result = [t \in Threads |-> None]
    /\ pre = [t \in Threads |-> NoPre]
    /\ edited = [t \in Threads |-> "no"]
    /\ status = [t \in Threads |-> None]

EmptyVarStep(t) ==
    \/ CallEditor(t)
    \/ \E path \in TargetPaths : CallFile(t, path)
    \/ \E buf \in ConcBuffers : CallBuffer(t, buf)
    \/ file(t)
    \/ edit_file_spawn(t)
    \/ edit_file_wait(t)
    \/ buffer(t)
    \/ new_temp_file(t)
    \/ edit_buffer_write(t)
    \/ edit_buffer_read(t)

EmptyVarNext ==
    \/ \E t \in Threads : EmptyVarStep(t)
    \/ \E var \in EnvVars : set_var(var, EnvValue(var))
    \/ \E var \in EnvVars : set_var(var, EmptyCommand)
    \/ \E var \in EnvVars : remove_var(var)
    \/ edit
    \/ with_editor_variable(FooEditor)
    \/ \E command \in ConfigCommands : with(command)

EmptyVarSpec == EmptyVarInit /\ [][EmptyVarNext]_vars

\* ---------------------------------------------------------------- typing
TypeOK ==
    /\ \A v \in EnvVars : env[v] \in {None, Some(EnvValue(v))}
    /\ \A p \in DOMAIN fs : fs[p] = None \/ Len(Unwrap(fs[p]).data) <= MaxLen
    /\ \A t \in DOMAIN pc : IsSome(child[t]) <=> pc[t] = "wait"

\* ================================================================== claims
Returned(t) == pc[t] = "done" /\ IsSome(result[t])
Succeeded(t) == Returned(t) /\ Unwrap(result[t]).ok
Failed(t) == Returned(t) /\ ~Unwrap(result[t]).ok
TheError(t) == Unwrap(result[t]).error

\* The sources of the editor command in order of priority, and the first
\* of them that is available.
Sources(ev, ec, environ) ==
    <<IF ev = None THEN None ELSE environ[Unwrap(ev)], ec,
      environ["VISUAL"], environ["EDITOR"], Some(Vi)>>
FirstAvailable(ev, ec, environ) ==
    LET srcs == Sources(ev, ec, environ)
        i == CHOOSE k \in 1..5 :
               IsSome(srcs[k]) /\ \A j \in 1..(k - 1) : srcs[j] = None
    IN  Unwrap(srcs[i])
NoOps == {Colon, True}

\* C1: whenever file_copy(src, dst) has returned an error, dst names
\* exactly what it named when file_copy was called: the same file with the
\* same bytes, or nothing.
C1_DstUntouchedOnFailure ==
    \A t \in Threads :
        (op[t] = "file_copy" /\ Failed(t))
            => Stat(fs, frame[t].dst) = pre[t].dst

\* C1 witness: the editor rewrote the temporary copy and then failed, and
\* an existing dst still has its bytes.
C1_Witness ==
    \E t \in Threads :
        /\ op[t] = "file_copy" /\ Failed(t)
        /\ TheError(t).kind = "EditorError"
        /\ edited[t] \in {"written", "replaced"}
        /\ IsSome(pre[t].dst)
        /\ Stat(fs, frame[t].dst) = pre[t].dst

\* C2: once buffer or file_copy has returned, with a result or with any
\* error, no file exists under the name of the temporary file it created.
C2_TempGoneOnReturn ==
    \A t \in Threads :
        (op[t] \in {"buffer", "file_copy"} /\ Returned(t)
         /\ IsSome(frame[t].temp))
            => Stat(fs, Unwrap(frame[t].temp)) = None

\* C2 witness: persist failed although the editor had left a file at the
\* temporary path, and the file is gone.
C2_Witness ==
    \E t \in Threads :
        /\ op[t] = "file_copy" /\ Failed(t)
        /\ status[t] = Some(Exited(0))
        /\ edited[t] = "replaced"
        /\ TheError(t) = PathError(Unwrap(frame[t].temp), "io")
        /\ Stat(fs, Unwrap(frame[t].temp)) = None

\* C3: the temporary file holds all bytes of src when the editor is handed
\* it; the step on which file_copy returns success turns dst into exactly
\* the file that was at the temporary path; and no other step of file_copy
\* changes what dst names.
C3_CopyComplete ==
    \A t \in Threads :
        (op[t] = "file_copy" /\ pc[t] = "file")
            => /\ IsSome(pre[t].src)
               /\ Stat(fs, Unwrap(frame[t].temp)) = Some(File(Unwrap(pre[t].src).data))
C3_PersistStep ==
    \A t \in Threads :
        (op[t] = "file_copy" /\ pc[t] # "done" /\ pc'[t] = "done"
         /\ result'[t] = Some(Ok(Unit)))
            => /\ pc[t] = "persist"
               /\ IsSome(Stat(fs, Unwrap(frame[t].temp)))
               /\ Stat(fs', frame[t].dst) = Stat(fs, Unwrap(frame[t].temp))
C3_OnlyRename ==
    \A t \in Threads :
        (op[t] = "file_copy" /\ ~Idle(t)
         /\ Stat(fs', frame[t].dst) # Stat(fs, frame[t].dst))
            => pc[t] = "persist" /\ result'[t] = Some(Ok(Unit))
C3_DstHoldsEditedCopy ==
    [](C3_CopyComplete) /\ [][C3_PersistStep /\ C3_OnlyRename]_vars

\* C3 witness: file_copy succeeded after the editor replaced the copy, and
\* dst names a file that differs from before and from src.
C3_Witness ==
    \E t \in Threads :
        /\ op[t] = "file_copy" /\ Succeeded(t)
        /\ edited[t] = "replaced"
        /\ IsSome(pre[t].dst)
        /\ Stat(fs, frame[t].dst) # pre[t].dst
        /\ Stat(fs, frame[t].dst) # pre[t].src

\* C4: while and after file_copy(src, dst) runs with src and dst naming
\* different files, src names the file with the bytes it had at the call.
C4_SrcUnchanged ==
    \A t \in Threads :
        (op[t] = "file_copy" /\ Resolve(frame[t].src) # Resolve(frame[t].dst))
            => Stat(fs, frame[t].src) = pre[t].src

\* C4 witness: a file_copy between different files succeeded and changed
\* dst, and src is as before.
C4_Witness ==
    \E t \in Threads :
        /\ op[t] = "file_copy" /\ Succeeded(t)
        /\ Resolve(frame[t].src) # Resolve(frame[t].dst)
        /\ Stat(fs, frame[t].dst) # pre[t].dst
        /\ edited[t] = "written"
        /\ Stat(fs, frame[t].src) = pre[t].src

\* C5: a call of editor() returns the first available of: the value of the
\* configured override variable, the configured command, VISUAL, EDITOR,
\* and "vi".
C5_ResolutionOrder ==
    [][\A t \in Threads :
         CallEditor(t) =>
            result'[t] =
                Some(Ok(FirstAvailable(editor_variable, editor_command, env)))]_vars

\* C5 witness: the override variable is configured but unset, VISUAL and
\* EDITOR are set, and editor() returned the configured command.
C5_Witness ==
    \E t \in Threads :
        /\ op[t] = "editor" /\ Succeeded(t)
        /\ editor_variable = Some(FooEditor) /\ env[FooEditor] = None
        /\ IsSome(editor_command)
        /\ IsSome(env["VISUAL"]) /\ IsSome(env["EDITOR"])
        /\ Unwrap(result[t]).value = Unwrap(editor_command)

\* C6: when the command resolved for file(path) is ":" or "true", the call
\* returns Ok(()) at once, starts no process and leaves the file system as
\* it is; any other command is handed to edit_file as it is.  No shell is
\* ever started for a no-op command, and a file(path) that succeeded
\* without a process leaves path naming what it named before.
C6_NoProcessForNoOp ==
    \A t \in Threads :
        /\ pc[t] \in {"spawn", "wait"} => frame[t].editor \notin NoOps
        /\ (op[t] = "file" /\ Succeeded(t) /\ status[t] = None)
              => Stat(fs, frame[t].path) = pre[t].dst
C6_FileStep ==
    \A t \in Threads :
        (op[t] = "file" /\ file(t)) =>
            LET cmd == FirstAvailable(editor_variable, editor_command, env)
            IN  IF cmd \in NoOps
                THEN /\ pc'[t] = "done"
                     /\ result'[t] = Some(Ok(Unit))
                     /\ fs' = fs
                     /\ child[t] = None /\ child'[t] = None
                ELSE /\ pc'[t] = "spawn"
                     /\ frame'[t].editor = cmd
                     /\ result'[t] = None
C6_NoOpFile == [](C6_NoProcessForNoOp) /\ [][C6_FileStep]_vars

\* C6 witness: ":" came from the override variable, file(path) succeeded
\* without a process, and a path that named nothing still names nothing.
C6_Witness ==
    \E t \in Threads :
        /\ op[t] = "file" /\ Succeeded(t) /\ status[t] = None
        /\ editor_variable = Some(FooEditor) /\ env[FooEditor] = Some(Colon)
        /\ pre[t].dst = None
        /\ Stat(fs, frame[t].path) = None

\* C7: buffer(buf) that succeeds with a no-op command, or with an editor
\* that left the file as it was, returns exactly buf.
C7_BufferRoundTrip ==
    \A t \in Threads :
        (op[t] = "buffer" /\ Succeeded(t) /\ edited[t] \in {"no", "kept"})
            => Unwrap(result[t]).value = pre[t].buf

\* C7 witness: an editor ran, changed nothing and exited with 0, and a
\* buffer of the greatest length came back.
C7_Witness ==
    \E t \in Threads :
        /\ op[t] = "buffer" /\ Succeeded(t)
        /\ edited[t] = "kept" /\ status[t] = Some(Exited(0))
        /\ Len(pre[t].buf) = MaxLen
        /\ Unwrap(result[t]).value = pre[t].buf

\* C8: the step on which buffer returns success after an editor ran
\* returns the bytes of the file found at the temporary path at that
\* moment, and nothing else.
C8_ReadStep ==
    \A t \in Threads :
        (op[t] = "buffer" /\ pc[t] = "read" /\ pc'[t] = "done"
         /\ Unwrap(result'[t]).ok)
            => /\ IsSome(Stat(fs, Unwrap(frame[t].temp)))
               /\ Unwrap(result'[t]).value =
                      Unwrap(Stat(fs, Unwrap(frame[t].temp))).data
C8_ReadBackByPath == [][C8_ReadStep]_vars

\* C8 witness: the editor replaced the directory entry, and buffer returned
\* bytes other than the non-empty buffer it was given.
C8_Witness ==
    \E t \in Threads :
        /\ op[t] = "buffer" /\ Succeeded(t)
        /\ edited[t] = "replaced"
        /\ pre[t].buf # <<>>
        /\ Unwrap(result[t]).value # pre[t].buf

\* C9: edit_file ends in one of three ways.  The shell does not start: the
\* error is CmdError.  The shell terminates otherwise than with exit code
\* 0: the error is EditorError with that status and with the command the
\* shell was given less the appended path variable.  The shell exits with
\* code 0: success.  A file(path) that succeeded ran no process or one that
\* exited with 0.
C9_SpawnStep ==
    \A t \in Threads :
        (pc[t] = "spawn" /\ pc'[t] # "spawn") =>
            \/ pc'[t] = "wait" /\ IsSome(child'[t]) /\ result'[t] = None
            \/ pc'[t] = "done" /\ result'[t] = Some(Err(CmdError))
C9_WaitStep ==
    \A t \in Threads :
        (pc[t] = "wait" /\ pc'[t] # "wait") =>
            LET st == Unwrap(status'[t])
            IN  IF st = Exited(0)
                THEN IF op[t] = "file"
                     THEN pc'[t] = "done" /\ result'[t] = Some(Ok(Unit))
                     ELSE pc'[t] \in {"read", "persist"} /\ result'[t] = None
                ELSE /\ pc'[t] = "done"
                     /\ ~Unwrap(result'[t]).ok
                     /\ Unwrap(result'[t]).error.kind = "EditorError"
                     /\ Unwrap(result'[t]).error.status = st
                     /\ Unwrap(result'[t]).error.editor \o PathVariable
                            = Unwrap(child[t]).args[2]
C9_FileResult ==
    \A t \in Threads :
        (op[t] = "file" /\ Returned(t)) =>
            IF Unwrap(result[t]).ok
            THEN status[t] \in {None, Some(Exited(0))}
            ELSE \/ status[t] = None /\ TheError(t) = CmdError
                 \/ /\ IsSome(status[t]) /\ Unwrap(status[t]) # Exited(0)
                    /\ TheError(t).kind = "EditorError"
                    /\ TheError(t).status = Unwrap(status[t])
C9_Outcome == [](C9_FileResult) /\ [][C9_SpawnStep /\ C9_WaitStep]_vars

\* C9 witness: the shell of a file(path) was killed by a signal, and the
\* error carries the command and the signal.
C9_Witness ==
    \E t \in Threads :
        /\ op[t] = "file" /\ Failed(t)
        /\ status[t] = Some(Signaled(9))
        /\ TheError(t) = EditorError(TrueSp, Signaled(9))

\* C10: every resolution uses the configuration and the environment of the
\* moment it is made and nothing else: editor() returns, and file, buffer
\* and file_copy act on, the first available source as it stands then.
C10_ResolveStep ==
    \A t \in Threads :
        LET cmd == FirstAvailable(editor_variable, editor_command, env)
        IN  /\ CallEditor(t) => result'[t] = Some(Ok(cmd))
            /\ (file(t) \/ buffer(t)) =>
                  IF cmd \in NoOps
                  THEN pc'[t] \notin {"spawn", "new_temp"} /\ frame'[t] = frame[t]
                  ELSE pc'[t] \in {"spawn", "new_temp"} /\ frame'[t].editor = cmd
C10_FreshResolution == [][C10_ResolveStep]_vars

\* C10 witness: with no override configured, two calls of editor() in a row
\* returned different commands, the later one being the value VISUAL has.
C10_Witness ==
    \E t \in Threads :
        /\ op[t] = "editor" /\ Succeeded(t)
        /\ editor_variable = None /\ editor_command = None
        /\ IsSome(pre[t].last)
        /\ pre[t].last # result[t]
        /\ Some(Unwrap(result[t]).value) = env["VISUAL"]

\* C11: file_copy(src, dst) with a no-op command goes from the finished
\* copy straight to persist, starting no process and changing no file on
\* that step; the temporary file that reaches persist without a process
\* holds the bytes of src, and when such a call has succeeded dst holds
\* exactly the bytes src had.
C11_Copied ==
    \A t \in Threads :
        (op[t] = "file_copy" /\ status[t] = None) =>
            /\ pc[t] = "persist" =>
                  /\ IsSome(pre[t].src)
                  /\ Stat(fs, Unwrap(frame[t].temp))
                         = Some(File(Unwrap(pre[t].src).data))
            /\ Succeeded(t) =>
                  /\ IsSome(pre[t].src)
                  /\ Stat(fs, frame[t].dst)
                         = Some(File(Unwrap(pre[t].src).data))
C11_SkipStep ==
    \A t \in Threads :
        (op[t] = "file_copy" /\ file(t)
         /\ FirstAvailable(editor_variable, editor_command, env) \in NoOps)
            => /\ pc'[t] = "persist"
               /\ result'[t] = None
               /\ fs' = fs
               /\ child[t] = None /\ child'[t] = None
C11_NoOpCopyPersists == [](C11_Copied) /\ [][C11_SkipStep]_vars

\* C11 witness: with "true" configured, file_copy succeeded without a
\* process, and a dst that held other bytes now holds the bytes of src.
C11_Witness ==
    \E t \in Threads :
        /\ op[t] = "file_copy" /\ Succeeded(t) /\ status[t] = None
        /\ editor_command = Some(True) /\ editor_variable = None
        /\ IsSome(pre[t].dst) /\ pre[t].dst # pre[t].src
        /\ Stat(fs, frame[t].dst) = pre[t].src
        /\ Stat(fs, frame[t].src) = pre[t].src

\* An operation in progress that holds a temporary file, and one on which
\* a step changed nothing of its own.
Live(t) == ~Idle(t) /\ IsSome(frame[t].temp)
Unmoved(t) ==
    /\ pc'[t] = pc[t] /\ op'[t] = op[t] /\ frame'[t] = frame[t]
    /\ child'[t] = child[t] /\ result'[t] = result[t]

\* C12: with two threads running buffer and file_copy in any interleaving,
\* no two operations in progress hold the same temporary path; until its
\* editor has run, an operation's temporary file holds what the operation
\* itself put there; no step of one operation changes what the temporary
\* path of another names; and the buffer an operation returns, or the file
\* it renames to dst, is the file at its own temporary path.
C12_DistinctTemps ==
    \A t, u \in ConcThreads :
        (t # u /\ Live(t) /\ Live(u)) => frame[t].temp # frame[u].temp
C12_OwnContent ==
    \A t \in ConcThreads :
        (Live(t) /\ pc[t] \in {"file", "spawn", "wait"}) =>
            Stat(fs, Unwrap(frame[t].temp)) =
                Some(File(IF op[t] = "buffer" THEN pre[t].buf
                          ELSE Unwrap(pre[t].src).data))
C12_NoForeignTouch ==
    \A u \in ConcThreads :
        (Live(u) /\ Unmoved(u)) =>
            Stat(fs', Unwrap(frame[u].temp)) = Stat(fs, Unwrap(frame[u].temp))
C12_OwnResult ==
    \A t \in ConcThreads :
        (pc[t] \in {"read", "persist"} /\ pc'[t] = "done"
         /\ Unwrap(result'[t]).ok) =>
            LET own == Stat(fs, Unwrap(frame[t].temp))
            IN  /\ IsSome(own)
                /\ op[t] = "buffer" =>
                      Unwrap(result'[t]).value = Unwrap(own).data
                /\ op[t] = "file_copy" => Stat(fs', frame[t].dst) = own
Words(text) == {text[i] : i \in 1..Len(text)}

\* C13: an error of a terminated editor renders as the command followed by
\* ": terminated with exit status: N" when, and only when, the process
\* exited with code N, and by ": terminated by signal: S (NAME)" when, and
\* only when, signal S ended it; an error of a file operation renders as
\* the path, ": " and the cause.
C13_Rendering ==
    \A t \in Threads :
        Failed(t) =>
            LET e == TheError(t)
                text == fmt(e)
            IN  /\ e.kind = "EditorError" =>
                      /\ ("with" \in Words(text)) <=> IsSome(e.status.code)
                      /\ ("by" \in Words(text)) <=> IsSome(e.status.signal)
                      /\ e.status = Exited(1) =>
                            text = e.editor \o
                                <<":", " ", "terminated", " ", "with", " ",
                                  "exit", " ", "status", ":", " ", "1">>
                      /\ e.status = Signaled(9) =>
                            text = e.editor \o
                                <<":", " ", "terminated", " ", "by", " ",
                                  "signal", ":", " ", "9", " ", "(", "SIGKILL", ")">>
                /\ e.kind = "PathError" =>
                      \/ /\ e.path = <<"/", "w", ".tmpA">>
                         /\ text = <<"/", "w", "/", ".tmpA", ":", " ", e.error>>
                      \/ /\ e.path = <<"/", "tmp", ".tmpA">>
                         /\ text = <<"/", "tmp", "/", ".tmpA", ":", " ", e.error>>
                      \/ /\ e.path = <<"/", "tmp">>
                         /\ text = <<"/", "tmp", ":", " ", e.error>>
                      \/ /\ e.path = <<"/", "w">>
                         /\ text = <<"/", "w", ":", " ", e.error>>
                      \/ /\ e.path = Root
                         /\ text = <<"/", ":", " ", e.error>>
                      \/ /\ e.path = Empty
                         /\ text = <<":", " ", e.error>>
                      \/ /\ Len(e.path) = 1 /\ e.path # Root
                         /\ text = <<e.path[1], ":", " ", e.error>>

\* C13 witness: file_copy failed because a signal ended "vi", and the
\* error reads "vi: terminated by signal: 9 (SIGKILL)".
C13_Witness ==
    \E t \in Threads :
        /\ op[t] = "file_copy" /\ Failed(t)
        /\ TheError(t) = EditorError(Vi, Signaled(9))
        /\ fmt(TheError(t)) =
              <<"vi", ":", " ", "terminated", " ", "by", " ",
                "signal", ":", " ", "9", " ", "(", "SIGKILL", ")">>

\* The points of an operation that lie before its call of
\* editor_unless_nop.
Unresolved(t) ==
    \/ pc[t] \in {"file", "buffer"}
    \/ (op[t] = "file_copy" /\ pc[t] \in {"open", "parent", "new_temp", "copy"})

\* C14 as stated: as long as an operation has not resolved its command it
\* has opened no file and holds no temporary file.
C14_ResolvesFirst ==
    \A t \in Threads :
        Unresolved(t) => frame[t].input = None /\ frame[t].temp = None

\* C14 as amended: file and buffer resolve the command before anything
\* else; file_copy opens src, creates the temporary file and copies src
\* into it before it resolves the command, which it does from the
\* environment as it stands once the copy is finished; no operation has
\* a process before it has resolved a command that is not a no-op.
C14_Points ==
    \A t \in Threads :
        /\ (Unresolved(t) /\ op[t] \in {"file", "buffer"}) =>
              frame[t].input = None /\ frame[t].temp = None
        /\ Unresolved(t) =>
              frame[t].editor = <<>> /\ child[t] = None /\ status[t] = None
        /\ (op[t] = "file_copy" /\ pc[t] = "file") =>
              /\ IsSome(frame[t].temp)
              /\ IsSome(Stat(fs, Unwrap(frame[t].temp)))
        /\ (pc[t] \in {"spawn", "wait"}
            \/ (op[t] = "buffer" /\ pc[t] \in {"new_temp", "write"})) =>
              frame[t].editor # <<>> /\ frame[t].editor \notin NoOps
C14_CopyResolveStep ==
    \A t \in Threads :
        (op[t] = "file_copy" /\ file(t)) =>
            LET cmd == FirstAvailable(editor_variable, editor_command, env)
            IN  IF cmd \in NoOps THEN pc'[t] = "persist"
                ELSE pc'[t] = "spawn" /\ frame'[t].editor = cmd
C14_ResolutionPoint == [](C14_Points) /\ [][C14_CopyResolveStep]_vars

\* C14 witness: file_copy has copied src into its temporary file and has
\* yet to resolve the command, and VISUAL is set.
C14_Witness ==
    \E t \in Threads :
        /\ op[t] = "file_copy" /\ pc[t] = "file"
        /\ Stat(fs, Unwrap(frame[t].temp)) = pre[t].src
        /\ frame[t].editor = <<>>
        /\ env["VISUAL"] = Some(Ed) /\ editor_command = None
        /\ editor_variable = None

\* C15 as stated: a buffer call that succeeded without a process, its
\* command being a no-op, created a temporary file on the way.
C15_NoOpUsesTemp ==
    \A t \in Threads :
        (op[t] = "buffer" /\ Succeeded(t) /\ status[t] = None)
            => IsSome(frame[t].temp)

\* C15 as amended: when the command resolved for buffer(buf) is a no-op
\* the call returns buf at once: it creates, writes, reads and deletes no
\* temporary file and starts no process.  A buffer call that has returned
\* without asking for the temporary directory succeeded with the buffer it
\* was given, and every failed buffer call had a command that was not a
\* no-op.
C15_NoOpStep ==
    \A t \in Threads :
        (buffer(t)
         /\ FirstAvailable(editor_variable, editor_command, env) \in NoOps)
            => /\ pc'[t] = "done"
               /\ result'[t] = Some(Ok(frame[t].buf))
               /\ fs' = fs
               /\ frame'[t] = frame[t] /\ frame[t].temp = None
               /\ child'[t] = None
C15_NoOpOutcome ==
    \A t \in Threads :
        (op[t] = "buffer" /\ Returned(t)) =>
            IF frame[t].dir = Empty
            THEN /\ result[t] = Some(Ok(pre[t].buf))
                 /\ frame[t].temp = None /\ status[t] = None
            ELSE frame[t].dir = temp_dir
C15_NoOpReturnsBuffer == [](C15_NoOpOutcome) /\ [][C15_NoOpStep]_vars

\* C15 witness: with ":" in the override variable, buffer returned a
\* buffer of the greatest length with no temporary file and no process.
C15_Witness ==
    \E t \in Threads :
        /\ op[t] = "buffer" /\ Succeeded(t)
        /\ editor_variable = Some(FooEditor) /\ env[FooEditor] = Some(Colon)
        /\ frame[t].temp = None /\ status[t] = None
        /\ Len(pre[t].buf) = MaxLen
        /\ Unwrap(result[t]).value = pre[t].buf

\* No temporary file exists in file system f.
NoTempFiles(f) ==
    \A p \in DOMAIN f :
        p[Len(p)] \in TempNames \cup ConcTempNames => f[p] = None

\* C16 as stated: a file_copy whose dst has no parent has failed, once it
\* has returned, with the is-a-directory error carrying dst, whatever
\* became of src, and has created no temporary file.
C16_ParentBeforeOpen ==
    \A t \in Threads :
        (op[t] = "file_copy" /\ Returned(t) /\ parent(frame[t].dst) = None)
            => /\ result[t] = Some(Err(PathError(frame[t].dst, "EISDIR")))
               /\ frame[t].temp = None

\* C16 as amended: file_copy opens src before it looks at dst.  With a dst
\* that has no parent it fails with the error of the open, carrying src,
\* when src could not be opened, and with the is-a-directory error
\* carrying dst when src was opened; either way no temporary file is
\* created.
C16_OpenBeforeParent ==
    \A t \in Threads :
        /\ pc[t] = "parent" => IsSome(frame[t].input)
        /\ (op[t] = "file_copy" /\ Returned(t)
            /\ parent(frame[t].dst) = None) =>
              /\ frame[t].temp = None /\ NoTempFiles(fs)
              /\ IF IsSome(frame[t].input)
                 THEN result[t] = Some(Err(PathError(frame[t].dst, "EISDIR")))
                 ELSE result[t] = Some(Err(PathError(frame[t].src, "io")))

\* C16 witness: src was opened, dst is the empty path, and file_copy
\* failed with the is-a-directory error carrying the empty path.
C16_Witness ==
    \E t \in Threads :
        /\ op[t] = "file_copy" /\ Failed(t)
        /\ frame[t].dst = Empty
        /\ frame[t].input = pre[t].src /\ IsSome(pre[t].src)
        /\ TheError(t) = PathError(Empty, "EISDIR")
        /\ NoTempFiles(fs)

\* C17: with two threads calling file_copy on the same dst in any
\* interleaving, every step that changes what dst names is the successful
\* rename of one call, and it makes dst the whole file that call has at
\* its temporary path, no other thread taking part in the step; and a dst
\* that exists never ceases to exist.
C17_DstStep ==
    \A t \in ConcThreads :
        (op[t] = "file_copy" /\ ~Idle(t)
         /\ Stat(fs', frame[t].dst) # Stat(fs, frame[t].dst)) =>
            \E u \in ConcThreads :
                /\ op[u] = "file_copy" /\ pc[u] = "persist"
                /\ Resolve(frame[u].dst) = Resolve(frame[t].dst)
                /\ pc'[u] = "done" /\ result'[u] = Some(Ok(Unit))
                /\ IsSome(Stat(fs, Unwrap(frame[u].temp)))
                /\ Stat(fs', frame[t].dst) = Stat(fs, Unwrap(frame[u].temp))
                /\ \A v \in ConcThreads \ {u} : Unmoved(v)
C17_DstStays ==
    \A p \in {<<"dst">>} : IsSome(Stat(fs, p)) => IsSome(Stat(fs', p))
C17_AtomicDst == [][C17_DstStep /\ C17_DstStays]_vars

\* C17 witness: while one file_copy waits to rename its edited copy, the
\* other has succeeded and dst, which existed, names another file than at
\* the call of the first.
C17_Witness ==
    \E t, u \in ConcThreads :
        /\ t # u
        /\ op[t] = "file_copy" /\ pc[t] = "persist" /\ edited[t] = "written"
        /\ op[u] = "file_copy" /\ Succeeded(u)
        /\ Resolve(frame[u].dst) = Resolve(frame[t].dst)
        /\ IsSome(pre[t].dst)
        /\ IsSome(Stat(fs, frame[t].dst))
        /\ Stat(fs, frame[t].dst) # pre[t].dst

\* The steps of each operation in the order of its code: the pairs of a
\* point and a point that may follow it.
Sequel(name) ==
    CASE name = "file" ->
            {<<"file", "spawn">>, <<"file", "done">>, <<"spawn", "wait">>,
             <<"spawn", "done">>, <<"wait", "done">>}
      [] name = "buffer" ->
            {<<"buffer", "new_temp">>, <<"buffer", "done">>,
             <<"new_temp", "write">>, <<"new_temp", "done">>,
             <<"write", "spawn">>, <<"write", "done">>,
             <<"spawn", "wait">>, <<"spawn", "done">>,
             <<"wait", "read">>, <<"wait", "done">>, <<"read", "done">>}
      [] name = "file_copy" ->
            {<<"open", "parent">>, <<"open", "done">>,
             <<"parent", "new_temp">>, <<"parent", "done">>,
             <<"new_temp", "copy">>, <<"new_temp", "done">>,
             <<"copy", "file">>, <<"copy", "done">>,
             <<"file", "spawn">>, <<"file", "persist">>,
             <<"spawn", "wait">>, <<"spawn", "done">>,
             <<"wait", "persist">>, <<"wait", "done">>, <<"persist", "done">>}
      [] OTHER -> {}

\* C18: an operation goes through its steps in the order of its code and
\* never back, so that none is taken twice; a result exists only once the
\* operation has ended, and a buffer or file_copy call that ended with an
\* error has left no temporary file and has left src and dst as they
\* were; file_copy starts the editor only with the finished
\* copy of src at the temporary path, and is at the rename only after no
\* process at all (a no-op command) or after an editor that exited with
\* code 0.
C18_Order ==
    \A t \in Threads :
        ~Idle(t) =>
            IF pc'[t] = pc[t] THEN Unmoved(t) /\ fs' = fs
            ELSE <<pc[t], pc'[t]>> \in Sequel(op[t]) /\ op'[t] = op[t]
C18_FailureEnds ==
    \A t \in Threads :
        /\ IsSome(result[t]) => pc[t] = "done"
        /\ Failed(t) =>
              /\ NoTempFiles(fs)
              /\ op[t] \in {"buffer", "file_copy"} =>
                    /\ Stat(fs, frame[t].src) = pre[t].src
                    /\ Stat(fs, frame[t].dst) = pre[t].dst
C18_Rename ==
    \A t \in Threads :
        pc[t] = "persist" =>
            /\ status[t] \in {None, Some(Exited(0))}
            /\ edited[t] = "no" <=> status[t] = None
            /\ result[t] = None
C18_CopyBeforeEditor ==
    \A t \in Threads :
        (op[t] = "file_copy" /\ pc[t] \in {"file", "spawn"}) =>
            /\ IsSome(pre[t].src)
            /\ Stat(fs, Unwrap(frame[t].temp))
                   = Some(File(Unwrap(pre[t].src).data))
            /\ result[t] = None
C18_InOrder ==
    /\ [](C18_CopyBeforeEditor /\ C18_Rename /\ C18_FailureEnds)
    /\ [][C18_Order]_vars

\* C18 witness: the shell of a file_copy did not start; the call failed
\* with that error, the temporary file is gone and dst is as it was.
C18_Witness ==
    \E t \in Threads :
        /\ op[t] = "file_copy" /\ Failed(t)
        /\ TheError(t) = CmdError
        /\ IsSome(frame[t].temp) /\ NoTempFiles(fs)
        /\ IsSome(pre[t].dst)
        /\ Stat(fs, frame[t].dst) = pre[t].dst

\* C19: the PathError a step returns carries: src, when the step opened
\* src; the directory asked for the temporary file, when the step created
\* it (the temporary directory for buffer, the directory that holds dst
\* for file_copy); the path of the temporary file, which is neither src
\* nor dst, when the step copied src, renamed to dst, wrote the buffer or
\* read it back.  (The step that looks at dst gives dst, or the empty
\* parent when the current directory cannot be had.)
C19_Step ==
    \A t \in Threads :
        (~Idle(t) /\ pc'[t] = "done" /\ ~Unwrap(result'[t]).ok
         /\ Unwrap(result'[t]).error.kind = "PathError") =>
            LET path == Unwrap(result'[t]).error.path
            IN  CASE pc[t] = "open" -> path = frame[t].src
                  [] pc[t] = "parent" -> path \in {frame[t].dst, Empty}
                  [] pc[t] = "new_temp" ->
                        IF op[t] = "buffer" THEN path = temp_dir
                        ELSE Some(path) = parent(Resolve(frame[t].dst))
                  [] pc[t] \in {"copy", "persist", "write", "read"} ->
                        /\ Some(path) = frame[t].temp
                        /\ path[Len(path)] \in TempNames
                        /\ path \notin {Resolve(frame[t].src),
                                         Resolve(frame[t].dst),
                                         frame[t].src, frame[t].dst}
                  [] OTHER -> FALSE
C19_PathOfStep == [][C19_Step]_vars

\* C19 witness: the copy of src into the temporary file failed, and the
\* error of file_copy carries the path of the temporary file beside dst.
C19_Witness ==
    \E t \in Threads :
        /\ op[t] = "file_copy" /\ Failed(t)
        /\ IsSome(frame[t].input) /\ IsSome(frame[t].temp)
        /\ frame[t].dst = <<"/", "w", "dst">>
        /\ TheError(t) = PathError(<<"/", "w", ".tmpA">>, "io")

\* The directory that holds the file a path names.
DirOf(p) == parent(Resolve(p))

\* C20: the temporary file of a file_copy lies in the directory that holds
\* dst, so that the rename in persist stays within one directory; the
\* temporary file of a buffer call lies in the temporary directory; and no
\* temporary file exists anywhere but at the path of the operation in
\* progress.
C20_TempDirectory ==
    /\ \A t \in Threads :
          (op[t] \in {"buffer", "file_copy"} /\ IsSome(frame[t].temp)) =>
              LET temp == Unwrap(frame[t].temp)
              IN  /\ temp[Len(temp)] \in TempNames
                  /\ IF op[t] = "buffer" THEN DirOf(temp) = Some(temp_dir)
                     ELSE DirOf(temp) = DirOf(frame[t].dst)
                  /\ pc[t] = "persist" =>
                        DirOf(temp) = DirOf(frame[t].dst)
    /\ \A p \in DOMAIN fs :
          (p[Len(p)] \in TempNames /\ IsSome(fs[p])) =>
              \E t \in Threads : Live(t) /\ frame[t].temp = Some(p)

\* C20 witness: file_copy to the bare file name "dst" is about to rename
\* a temporary file that lies in the current directory.
C20_Witness ==
    \E t \in Threads :
        /\ op[t] = "file_copy" /\ pc[t] = "persist"
        /\ frame[t].dst = <<"dst">>
        /\ parent(frame[t].dst) = Some(Empty)
        /\ frame[t].temp = Some(join(current_dir, ".tmpA"))
        /\ IsSome(Stat(fs, Unwrap(frame[t].temp)))

\* C21: every step of editor(), file, buffer and file_copy, whatever the
\* outcome, leaves the caller's process environment and the configuration
\* of the Edit value as they are; the variable TMP_file_path is set in the
\* environment of the spawned shell only, to the path being edited, and
\* the caller's environment never has it.
C21_Frame ==
    (<<fs, pc, op, frame, child, result, pre, edited, status>>'
        # <<fs, pc, op, frame, child, result, pre, edited, status>>)
        => /\ env' = env
           /\ editor_variable' = editor_variable
           /\ editor_command' = editor_command
C21_ShellOnly ==
    /\ DOMAIN env = ProcessVars
    /\ var_os(env, PathVarName) = None
    /\ \A t \in Threads :
          pc[t] = "wait"
              => /\ IsSome(child[t])
                 /\ Unwrap(child[t]).TMP_file_path = frame[t].path
                 /\ frame[t].path # Empty
C21_CallerUnchanged == [](C21_ShellOnly) /\ [][C21_Frame]_vars

\* C21 witness: a configured Edit value and a set variable, a shell that
\* ran on the temporary copy and was killed, so that file_copy failed; the
\* caller's environment has no TMP_file_path.
C21_Witness ==
    \E t \in Threads :
        /\ op[t] = "file_copy" /\ Failed(t)
        /\ status[t] = Some(Signaled(9))
        /\ IsSome(editor_variable) /\ IsSome(editor_command)
        /\ IsSome(env["VISUAL"])
        /\ var_os(env, PathVarName) = None

\* C22: in the demonstration tool the options --var and --editor given
\* before the action configure the editor of every action: the operation
\* that --file, --echo or --copy calls resolves its command from the Edit
\* value the options were applied to, and that is the command it runs.
C22_OptionsConfigure ==
    \A t \in Threads :
        LET main == frame["main"]
            configured == editor(main.edit.editor_variable,
                                 main.edit.editor_command, env)
        IN  /\ main.at \in {"action", "call"}
                => main.edit = MainEdit(Unwrap(main.opts))
            /\ pc[t] \in {"file", "buffer"}
                => editor(editor_variable, editor_command, env) = configured
            /\ pc[t] \in {"spawn", "wait"} => frame[t].editor = configured

\* C22 witness: the tool was started with --editor true and --echo in an
\* environment without VISUAL and EDITOR, and a shell runs "vi" on the
\* message.
C22_Witness ==
    \E t \in Threads :
        /\ "main" \in DOMAIN frame
        /\ IsSome(frame["main"].opts)
        /\ Unwrap(frame["main"].opts).action.kind = "EditMessage"
        /\ Unwrap(frame["main"].opts).editor = Some(True)
        /\ pc[t] = "wait"
        /\ Unwrap(child[t]).args[2] = concat_os_str(Vi, PathVariable)

\* C23: a variable set to the empty string exists.  When the first
\* available source of the command is such a variable, editor() returns
\* the empty command, not the value of a lower source and not "vi"; the
\* empty command is not a no-op, so file and buffer go on to the shell,
\* which is started with the empty command before the quoted variable.
C23_Resolved ==
    FirstAvailable(editor_variable, editor_command, env) = EmptyCommand
        => /\ editor(editor_variable, editor_command, env) = EmptyCommand
           /\ editor_unless_nop(editor_variable, editor_command, env)
                  = Some(EmptyCommand)
C23_EditorReturns ==
    \A t \in Threads :
        (CallEditor(t)
         /\ FirstAvailable(editor_variable, editor_command, env) = EmptyCommand)
            => result'[t] = Some(Ok(EmptyCommand))
C23_NotNoOp ==
    \A t \in Threads :
        ((file(t) \/ buffer(t))
         /\ FirstAvailable(editor_variable, editor_command, env) = EmptyCommand)
            => /\ pc'[t] = (IF pc[t] = "file" THEN "spawn" ELSE "new_temp")
               /\ frame'[t].editor = EmptyCommand
               /\ result'[t] = None
C23_Spawned ==
    \A t \in Threads :
        (pc[t] = "spawn" /\ pc'[t] = "wait" /\ frame[t].editor = EmptyCommand)
            => child'[t] = Some([program |-> "/bin/sh",
                                 args |-> <<"-c", PathVariable>>,
                                 TMP_file_path |-> frame[t].path])
C23_EmptyExists ==
    /\ [](C23_Resolved)
    /\ [][C23_EditorReturns /\ C23_NotNoOp /\ C23_Spawned]_vars

\* C23 witness: VISUAL is set to the empty string, EDITOR to a command and
\* nothing is configured; file resolved the empty command and its shell is
\* running.
C23_Witness ==
    \E t \in Threads :
        /\ op[t] = "file" /\ pc[t] = "wait"
        /\ editor_variable = None /\ editor_command = None
        /\ env["VISUAL"] = Some(EmptyCommand)
        /\ IsSome(env["EDITOR"]) /\ env["EDITOR"] # Some(EmptyCommand)
        /\ frame[t].editor = EmptyCommand
        /\ Unwrap(child[t]).args = <<"-c", PathVariable>>

====
